---- MODULE Spec2Model ----
(***************************************************************************)
(* Model of k8s-nlb-registrator-sidecar (src/main.go, lines 583-885, and   *)
(* ExecCommand in src/unnamed/part_001).                                   *)
(*                                                                         *)
(* Three flows of control share the state:                                 *)
(*   - the main goroutine (main, SetupELBService, DiscoverTargetGroupArn,  *)
(*     DeregisterTarget),                                                  *)
(*   - the registration goroutine started by `go RegisterTarget(...)`,     *)
(*   - the goroutine of signals.SetupSignalHandler, which closes the       *)
(*     `done` channel on the first SIGINT/SIGTERM and calls os.Exit(1) on  *)
(*     the second one.                                                     *)
(* The ELBv2 backend is a fourth party: a request that was sent stays in   *)
(* the network until the backend applies or rejects it, also when the      *)
(* client has stopped waiting for the answer (cancelled context, process   *)
(* exit).                                                                  *)
(***************************************************************************)
EXTENDS Integers, Sequences, FiniteSets, TLC

\* retrier.ExponentialBackoff(3, 1*time.Second): number of retries, base delay (s)
Retries == 3
BaseDelay == 1

\* Bound of the model: number of termination signals the environment sends.
MaxSignals == 2

VARIABLES
    app,            \* the global *App: configuration and the cached TargetGroupArn
    targetGroups,   \* the backend's target groups carrying app.TargetGroupName (ARNs)
    flagErr,        \* ParseFlags returned an error: the command line ends with
                    \* -post-register-command, which is not a flag of App
    mainpc,         \* position of the main goroutine
    taskpc,         \* position of the registration goroutine
    hpc,            \* position of the signal-handler goroutine
    sigBuf,         \* signals delivered to the handler's channel and not yet read
    sigsSent,       \* signals sent by the environment so far
    done,           \* the channel returned by SetupSignalHandler is closed
    doneCloses,     \* close(stop) executions of the signal handler
    regAtSignal,    \* the registration run had returned nil when the first
                    \* signal arrived
    cancelled,      \* regCancelCtx is cancelled (regCancelFunc was called)
    retries,        \* the `retries` counter of the retrier run of each call site
    regResp,        \* answer the register call of the task is about to return
    deregResp,      \* answer the deregister call of main is about to return
    exited,         \* the process has exited
    exitCode,       \* its exit status
    exitCause,      \* which statement ended it
    member,         \* backend: TargetID is registered in the target group
    regInFlight,    \* backend: a register request is in the network
    deregInFlight,  \* backend: a deregister request is in the network
    rejected,       \* backend: a register, health-wait or deregister call was
                    \* answered with an error or not answered in time
    calls,          \* number of executions of the wrapped operation per call site
    regSends,       \* register requests actually sent to the backend
    healthWaits,    \* invocations of WaitUntilTargetInServiceWithContext
    healthEnd,      \* how the last health-wait ended
    deregRuns,      \* invocations of DeregisterTarget(ctx, app, ...)
    callArgs,       \* the inputs the backend operations were called with
    regSlept,       \* seconds of backoff the registration run has slept
    hookRuns,       \* executions of each hook command
    hookEnd,        \* how the last execution of each hook ended
    outcome,        \* what each retrier run returned
    logs,           \* error records written by logger.Log("error", ...)
    runInput,       \* a retrier run taken alone: the input of the operation
    runAnswers,     \* the backend's answers to its successive executions
    runpc,          \* position of the run
    runRetries,     \* its `retries` counter
    runExecs,       \* executions of the wrapped operation
    runSlept,       \* seconds of backoff slept
    runResult       \* what RunCtx returned

runVars  == <<runInput, runAnswers, runpc, runRetries, runExecs, runSlept,
              runResult>>
\* what no step of the program changes
cfgVars  == <<targetGroups, flagErr, runVars>>
sigVars  == <<hpc, sigBuf, sigsSent, done, doneCloses, regAtSignal>>
exitVars == <<exited, exitCode, exitCause>>
backVars == <<member, regInFlight, deregInFlight, rejected>>
hookVars == <<hookRuns, hookEnd>>
cntVars  == <<regSends, healthWaits, healthEnd, deregRuns, callArgs,
              regSlept>>
vars == <<app, targetGroups, flagErr, mainpc, taskpc, hpc, sigBuf, sigsSent, done,
          doneCloses, regAtSignal,
          cancelled, retries, regResp, deregResp, exited, exitCode, exitCause,
          member, regInFlight, deregInFlight, rejected, calls, regSends, healthWaits,
          healthEnd, deregRuns, callArgs, regSlept, hookRuns, hookEnd, outcome,
          logs,
          runInput, runAnswers, runpc, runRetries, runExecs, runSlept,
          runResult>>

Sites == {"session", "discover", "register", "deregister"}
\* the call sites whose executions of the wrapped operation are counted
Counted == {"discover", "register", "deregister"}
Hooks == {"PreRegister", "PostDeregister"}
\* the hooks an execution is counted for: those of App and the post-register
\* hook a command line may ask for
HookNames == Hooks \cup {"PostRegister"}

ArnA == "arn:A"
ArnB == "arn:B"
\* the value of the flag target-id
TargetIP == "10.0.0.7"

\* ------------------------------------------------------------------------
\* github.com/eapache/go-resiliency/retrier, as used at the four call sites
\* ------------------------------------------------------------------------

\* behaviour-changing variant: one backoff entry more
ExponentialBackoffLong(n, initialAmount) ==
    [i \in 1..(n + 1) |-> initialAmount * (2 ^ (i - 1))]

\* retrier.ExponentialBackoff(n, initialAmount): n delays, each the double
\* of the one before
ExponentialBackoff(n, initialAmount) ==
    [i \in 1..n |-> initialAmount * (2 ^ (i - 1))]

\* behaviour-changing variant: retrier.ConstantBackoff(3, 1*time.Second)
backoffConstant == [i \in 1..Retries |-> BaseDelay]

\* the backoff of every retrier of the program
backoff == ExponentialBackoff(Retries, BaseDelay)

\* behaviour-changing variant: a classifier that also retries a success
ClassifyRetryingSuccess(err) == "Retry"

\* retrier.New(backoff, nil): the nil classifier is the DefaultClassifier,
\* which retries every non-nil error
Classify(err) == IF err = "nil" THEN "Succeed" ELSE "Retry"

\* Retrier.RunCtx after work() returned err: return it, or sleep and retry
RetryDecision(err, r) ==
    IF Classify(err) \in {"Succeed", "Fail"} THEN "return"
    ELSE IF r >= Len(backoff) THEN "return"
    ELSE "sleep"

\* ------------------------------------------------------------------------
\* Initial state: main() has parsed the flags and installed the signal
\* handler (src/main.go:744-752)
\* ------------------------------------------------------------------------
InitProgram ==
    /\ flagErr \in BOOLEAN
    /\ app \in [WaitInService : BOOLEAN,
                TargetID : {TargetIP},
                TargetGroupArn : {""},
                PreRegisterCommand : {"", "pre.sh"},
                PostDeregisterCommand : {"", "post.sh"}]
    /\ flagErr => (app.PreRegisterCommand = "" /\ app.PostDeregisterCommand = "")
    /\ targetGroups \in {<<>>, <<ArnA>>, <<ArnA, ArnB>>}
    /\ mainpc = "session"
    /\ taskpc = "none"
    /\ hpc = "first"
    /\ sigBuf = 0
    /\ sigsSent = 0
    /\ done = FALSE
    /\ doneCloses = 0
    /\ regAtSignal = FALSE
    /\ cancelled = FALSE
    /\ retries = [s \in Sites |-> 0]
    /\ regResp = "none"
    /\ deregResp = "none"
    /\ exited = FALSE
    /\ exitCode = 0
    /\ exitCause = "none"
    /\ member = FALSE
    /\ regInFlight = FALSE
    /\ deregInFlight = FALSE
    /\ rejected = FALSE
    /\ calls = [s \in Counted |-> 0]
    /\ regSends = 0
    /\ healthWaits = 0
    /\ healthEnd = "none"
    /\ deregRuns = 0
    /\ callArgs = {}
    /\ regSlept = 0
    /\ hookRuns = [h \in HookNames |-> 0]
    /\ hookEnd = [h \in HookNames |-> "none"]
    /\ outcome = [s \in Sites |-> "none"]
    /\ logs = IF flagErr THEN {"flags"} ELSE {}

\* the retrier run taken alone is not used by the program
RunIdle ==
    /\ runInput = [TargetGroupArnIsNil |-> FALSE]
    /\ runAnswers = <<>>
    /\ runpc = "idle"
    /\ runRetries = 0
    /\ runExecs = 0
    /\ runSlept = 0
    /\ runResult = "none"

Init == InitProgram /\ RunIdle

\* os.Exit(code), or the return of main
Exit(code, cause) ==
    /\ exited' = TRUE
    /\ exitCode' = code
    /\ exitCause' = cause

\* behaviour-changing variant: the handle is taken from a flag that was not
\* given instead of the discovered one
TargetInputFromFlag(op, a) ==
    [op |-> op, ID |-> a.TargetID, TargetGroupArn |-> ""]

\* RegisterTargetInput / DeregisterTargetInput as RegisterTarget and
\* DeregisterTarget build them, and the elbv2 inputs built from them: the
\* target id and the ARN are read from app at the time of the call
TargetInput(op, a) ==
    [op |-> op, ID |-> a.TargetID, TargetGroupArn |-> a.TargetGroupArn]

\* ------------------------------------------------------------------------
\* Main goroutine
\* ------------------------------------------------------------------------

\* behaviour-changing variant: the final error of the run is only logged
\* and main goes on with a nil session
SetupELBServiceLoggingOnly ==
    /\ ~exited
    /\ mainpc = "session"
    /\ \E err \in {"nil", "err"} :
        /\ IF RetryDecision(err, retries["session"]) = "sleep"
           THEN /\ mainpc' = "session_sleep"
                /\ UNCHANGED <<retries, outcome, logs>>
           ELSE /\ outcome' = [outcome EXCEPT !["session"] = err]
                /\ retries' = [retries EXCEPT !["session"] = 0]
                /\ logs' = IF err # "nil" THEN logs \cup {"session"} ELSE logs
                /\ mainpc' = "discover"
    /\ UNCHANGED <<app, cfgVars, taskpc, sigVars, cancelled, regResp, deregResp,
                   exitVars, backVars, calls, cntVars, hookVars>>

\* SetupELBService: one execution of the work function of sessionRetrier.Run
\* (session.NewSession) and the retrier's decision; os.Exit(1) when the run
\* returns an error.  The counter `retries` is a local of the run and is
\* gone when it returns.
SetupELBService ==
    /\ ~exited
    /\ mainpc = "session"
    /\ \E err \in {"nil", "err"} :
        /\ IF RetryDecision(err, retries["session"]) = "sleep"
           THEN /\ mainpc' = "session_sleep"
                /\ UNCHANGED <<retries, outcome, logs, exitVars>>
           ELSE /\ outcome' = [outcome EXCEPT !["session"] = err]
                /\ retries' = [retries EXCEPT !["session"] = 0]
                /\ IF err # "nil"
                   THEN /\ logs' = logs \cup {"session"}
                        /\ Exit(1, "session")
                        /\ UNCHANGED mainpc
                   ELSE /\ mainpc' = "discover"
                        /\ UNCHANGED <<logs, exitVars>>
    /\ UNCHANGED <<app, cfgVars, taskpc, sigVars, cancelled, regResp, deregResp,
                   backVars, calls, cntVars, hookVars>>

\* the backoff sleep of sessionRetrier.Run: its context is context.Background,
\* so only the timer ends it
SessionSleep ==
    /\ ~exited
    /\ mainpc = "session_sleep"
    /\ retries' = [retries EXCEPT !["session"] = @ + 1]
    /\ mainpc' = "session"
    /\ UNCHANGED <<app, cfgVars, taskpc, sigVars, cancelled, regResp, deregResp,
                   exitVars, backVars, calls, cntVars, hookVars,
                   outcome, logs>>

\* behaviour-changing variant: only an empty answer is an error
ServiceDiscoverFirst(groups, apiErr) ==
    IF apiErr THEN [arn |-> "", err |-> "err"]
    ELSE IF Len(groups) = 0 THEN [arn |-> "", err |-> "count"]
    ELSE [arn |-> groups[1], err |-> "nil"]

\* RegistratorService.DiscoverTargetGroupArn: DescribeTargetGroups by name;
\* an API error, or a number of groups other than one, is an error
ServiceDiscover(groups, apiErr) ==
    IF apiErr THEN [arn |-> "", err |-> "err"]
    ELSE IF Len(groups) # 1 THEN [arn |-> "", err |-> "count"]
    ELSE [arn |-> groups[1], err |-> "nil"]

\* DiscoverTargetGroupArn: one execution of the work function of
\* discoverTargetGroupArnRetrier.Run and the retrier's decision; os.Exit(1)
\* when the run returns an error, else main stores the ARN in app.  The
\* retrier and the bookkeeping of its run are locals of the function: they
\* are gone when it returns the handle.
DiscoverTargetGroupArn ==
    /\ ~exited
    /\ mainpc = "discover"
    /\ \E apiErr \in BOOLEAN :
        LET res == ServiceDiscover(targetGroups, apiErr) IN
        IF RetryDecision(res.err, retries["discover"]) = "sleep"
        THEN /\ calls' = [calls EXCEPT !["discover"] = @ + 1]
             /\ mainpc' = "discover_sleep"
             /\ UNCHANGED <<app, retries, outcome, logs, exitVars>>
        ELSE /\ outcome' = [outcome EXCEPT !["discover"] = res.err]
             /\ IF res.err # "nil"
                THEN /\ calls' = [calls EXCEPT !["discover"] = @ + 1]
                     /\ logs' = logs \cup {"discover"}
                     /\ Exit(1, "discover")
                     /\ UNCHANGED <<mainpc, app, retries>>
                ELSE /\ app' = [app EXCEPT !.TargetGroupArn = res.arn]
                     /\ calls' = [calls EXCEPT !["discover"] = 0]
                     /\ retries' = [retries EXCEPT !["discover"] = 0]
                     /\ mainpc' = "spawn"
                     /\ UNCHANGED <<logs, exitVars>>
    /\ UNCHANGED <<cfgVars, taskpc, sigVars, cancelled, regResp, deregResp,
                   backVars, cntVars, hookVars>>

\* the backoff sleep of discoverTargetGroupArnRetrier.Run (not cancellable)
DiscoverSleep ==
    /\ ~exited
    /\ mainpc = "discover_sleep"
    /\ retries' = [retries EXCEPT !["discover"] = @ + 1]
    /\ mainpc' = "discover"
    /\ UNCHANGED <<app, cfgVars, taskpc, sigVars, cancelled, regResp, deregResp,
                   exitVars, backVars, calls, cntVars, hookVars,
                   outcome, logs>>

\* main: regCancelCtx is derived and `go RegisterTarget(regCancelCtx, ...)`
\* starts the registration goroutine; main goes on to `<-done`
GoRegisterTarget ==
    /\ ~exited
    /\ mainpc = "spawn"
    /\ taskpc' = "start"
    /\ mainpc' = "blocked"
    /\ UNCHANGED <<app, cfgVars, sigVars, cancelled, retries, regResp, deregResp,
                   exitVars, backVars, calls, cntVars, hookVars,
                   outcome, logs>>

\* behaviour-changing variant: the receive does not wait for the close
DoneReadableAlways == TRUE

\* `<-done` returns once the channel is closed; there is no other case
DoneReadable == done

\* main: `<-done`
AwaitDone ==
    /\ ~exited
    /\ mainpc = "blocked"
    /\ DoneReadable
    /\ mainpc' = "cancel"
    /\ UNCHANGED <<app, cfgVars, taskpc, sigVars, cancelled, retries, regResp,
                   deregResp, exitVars, backVars, calls, cntVars,
                   hookVars, outcome, logs>>

\* behaviour-changing variant: the cancellation rolls a committed
\* registration back at the backend
RegCancelFuncRevoking ==
    /\ ~exited
    /\ mainpc = "cancel"
    /\ cancelled' = TRUE
    /\ member' = FALSE
    /\ mainpc' = "dereg_start"
    /\ UNCHANGED <<app, cfgVars, taskpc, sigVars, retries, regResp, deregResp,
                   exitVars, regInFlight, deregInFlight, rejected, calls,
                   cntVars, hookVars, outcome, logs>>

\* behaviour-changing variant: no deregistration after a failed registration
RegCancelFuncSkippingAfterFailure ==
    /\ ~exited
    /\ mainpc = "cancel"
    /\ cancelled' = TRUE
    /\ mainpc' = IF outcome["register"] \in {"err", "timeout"}
                 THEN "posthook" ELSE "dereg_start"
    /\ UNCHANGED <<app, cfgVars, taskpc, sigVars, retries, regResp, deregResp,
                   exitVars, backVars, calls, cntVars, hookVars,
                   outcome, logs>>

\* main: regCancelFunc(); main does not wait for the registration goroutine
RegCancelFunc ==
    /\ ~exited
    /\ mainpc = "cancel"
    /\ cancelled' = TRUE
    /\ mainpc' = "dereg_start"
    /\ UNCHANGED <<app, cfgVars, taskpc, sigVars, retries, regResp, deregResp,
                   exitVars, backVars, calls, cntVars, hookVars,
                   outcome, logs>>

\* main: DeregisterTarget(ctx, app, registratorService, logger) is called
\* with the background context and builds its retrier
DeregisterTarget ==
    /\ ~exited
    /\ mainpc = "dereg_start"
    /\ deregRuns' = deregRuns + 1
    /\ mainpc' = "dereg"
    /\ UNCHANGED <<app, cfgVars, taskpc, sigVars, cancelled, retries, regResp,
                   deregResp, exitVars, backVars, calls, regSends, healthWaits,
                   healthEnd, callArgs, regSlept, hookVars, outcome, logs>>

\* DeregisterTarget: deregisterRetrier.RunCtx calls the work function, which
\* sends DeregisterTargetsWithContext with the background context
DeregisterCall ==
    /\ ~exited
    /\ mainpc = "dereg"
    /\ calls' = [calls EXCEPT !["deregister"] = @ + 1]
    /\ callArgs' = callArgs \cup {TargetInput("deregister", app)}
    /\ deregInFlight' = TRUE
    /\ deregResp' = "none"
    /\ mainpc' = "dereg_wait"
    /\ UNCHANGED <<app, cfgVars, taskpc, sigVars, cancelled, retries, regResp,
                   exitVars, member, regInFlight, rejected, regSends,
                   healthWaits, healthEnd, deregRuns, regSlept, hookVars,
                   outcome, logs>>

\* DeregisterTarget: the deregister call returns and the retrier decides;
\* a final error is logged and the function goes on to the hook
DeregisterReturn ==
    /\ ~exited
    /\ mainpc = "dereg_wait"
    /\ deregResp # "none"
    /\ IF RetryDecision(deregResp, retries["deregister"]) = "sleep"
       THEN /\ mainpc' = "dereg_sleep"
            /\ UNCHANGED <<outcome, logs>>
       ELSE /\ outcome' = [outcome EXCEPT !["deregister"] = deregResp]
            /\ logs' = IF deregResp # "nil" THEN logs \cup {"deregister"} ELSE logs
            /\ mainpc' = "posthook"
    /\ deregResp' = "none"
    /\ UNCHANGED <<app, cfgVars, taskpc, sigVars, cancelled, retries, regResp,
                   exitVars, backVars, calls, cntVars, hookVars>>

\* behaviour-changing variant: the run is given regCancelCtx, whose
\* cancellation ends the sleep and the run
DeregisterSleepCancellable ==
    /\ ~exited
    /\ mainpc = "dereg_sleep"
    /\ IF cancelled
       THEN /\ outcome' = [outcome EXCEPT !["deregister"] = "canceled"]
            /\ logs' = logs \cup {"deregister"}
            /\ mainpc' = "posthook"
            /\ UNCHANGED retries
       ELSE /\ retries' = [retries EXCEPT !["deregister"] = @ + 1]
            /\ mainpc' = "dereg"
            /\ UNCHANGED <<outcome, logs>>
    /\ UNCHANGED <<app, cfgVars, taskpc, sigVars, cancelled, regResp, deregResp,
                   exitVars, backVars, calls, cntVars, hookVars>>

\* the backoff sleep of deregisterRetrier.RunCtx(ctx, ...): ctx is
\* context.Background, which is never done, so only the timer ends it
DeregisterSleep ==
    /\ ~exited
    /\ mainpc = "dereg_sleep"
    /\ retries' = [retries EXCEPT !["deregister"] = @ + 1]
    /\ mainpc' = "dereg"
    /\ UNCHANGED <<app, cfgVars, taskpc, sigVars, cancelled, regResp, deregResp,
                   exitVars, backVars, calls, cntVars, hookVars,
                   outcome, logs>>

\* behaviour-changing variant: the hook is skipped when the deregister run
\* returned an error
PostDeregisterHookOnSuccessOnly ==
    /\ ~exited
    /\ mainpc = "posthook"
    /\ IF app.PostDeregisterCommand # "" /\ outcome["deregister"] = "nil"
       THEN /\ hookRuns' = [hookRuns EXCEPT !["PostDeregister"] = @ + 1]
            /\ mainpc' = "posthook_run"
            /\ UNCHANGED exitVars
       ELSE /\ mainpc' = "returned"
            /\ Exit(0, "return")
            /\ UNCHANGED hookRuns
    /\ UNCHANGED <<app, cfgVars, taskpc, sigVars, cancelled, retries, regResp,
                   deregResp, backVars, calls, cntVars, hookEnd,
                   outcome, logs>>

\* DeregisterTarget: the post-deregister hook is started when its command is
\* not empty; otherwise DeregisterTarget and main return
PostDeregisterHook ==
    /\ ~exited
    /\ mainpc = "posthook"
    /\ IF app.PostDeregisterCommand # ""
       THEN /\ hookRuns' = [hookRuns EXCEPT !["PostDeregister"] = @ + 1]
            /\ mainpc' = "posthook_run"
            /\ UNCHANGED exitVars
       ELSE /\ mainpc' = "returned"
            /\ Exit(0, "return")
            /\ UNCHANGED hookRuns
    /\ UNCHANGED <<app, cfgVars, taskpc, sigVars, cancelled, retries, regResp,
                   deregResp, backVars, calls, cntVars, hookEnd,
                   outcome, logs>>

\* behaviour-changing variant: the hook's context is derived from
\* regCancelCtx, whose cancellation kills the command
PostDeregisterHookEndCancellable ==
    /\ ~exited
    /\ mainpc = "posthook_run"
    /\ \E r \in {"ok", "fail", "timeout"} \cup
                (IF cancelled THEN {"canceled"} ELSE {}) :
        hookEnd' = [hookEnd EXCEPT !["PostDeregister"] = r]
    /\ mainpc' = "returned"
    /\ Exit(0, "return")
    /\ UNCHANGED <<app, cfgVars, taskpc, sigVars, cancelled, retries, regResp,
                   deregResp, backVars, calls, cntVars, hookRuns,
                   outcome, logs>>

\* ExecCommand of the post-deregister hook ends: the command finished (zero
\* or non-zero status) or its timeout killed it; then main returns
PostDeregisterHookEnd ==
    /\ ~exited
    /\ mainpc = "posthook_run"
    /\ \E r \in {"ok", "fail", "timeout"} :
        hookEnd' = [hookEnd EXCEPT !["PostDeregister"] = r]
    /\ mainpc' = "returned"
    /\ Exit(0, "return")
    /\ UNCHANGED <<app, cfgVars, taskpc, sigVars, cancelled, retries, regResp,
                   deregResp, backVars, calls, cntVars, hookRuns,
                   outcome, logs>>

\* ------------------------------------------------------------------------
\* Registration goroutine: RegisterTarget(regCancelCtx, app, ...)
\* ------------------------------------------------------------------------

\* RegisterTarget: the pre-register hook is started when its command is not
\* empty.  Its context preRegCtx is derived from regCancelCtx, and
\* exec.CommandContext does not start the command when the context is
\* already done.
PreRegisterHook ==
    /\ ~exited
    /\ taskpc = "start"
    /\ IF app.PreRegisterCommand = ""
       THEN /\ taskpc' = "reg_call"
            /\ UNCHANGED hookVars
       ELSE IF cancelled
       THEN /\ hookEnd' = [hookEnd EXCEPT !["PreRegister"] = "canceled"]
            /\ taskpc' = "reg_call"
            /\ UNCHANGED hookRuns
       ELSE /\ hookRuns' = [hookRuns EXCEPT !["PreRegister"] = @ + 1]
            /\ taskpc' = "prehook_run"
            /\ UNCHANGED hookEnd
    /\ UNCHANGED <<app, cfgVars, mainpc, sigVars, cancelled, retries, regResp,
                   deregResp, exitVars, backVars, calls, cntVars,
                   outcome, logs>>

\* behaviour-changing variant: RegisterTarget returns when the hook failed
PreRegisterHookEndAborting ==
    /\ ~exited
    /\ taskpc = "prehook_run"
    /\ \E r \in {"ok", "fail", "timeout"} \cup
                (IF cancelled THEN {"canceled"} ELSE {}) :
        /\ hookEnd' = [hookEnd EXCEPT !["PreRegister"] = r]
        /\ taskpc' = IF r = "ok" THEN "reg_call" ELSE "ended"
    /\ UNCHANGED <<app, cfgVars, mainpc, sigVars, cancelled, retries, regResp,
                   deregResp, exitVars, backVars, calls, cntVars,
                   hookRuns, outcome, logs>>

\* ExecCommand of the pre-register hook ends: the command finished, its
\* timeout killed it, or the cancellation of regCancelCtx killed it.  The
\* error ExecCommand returns is dropped by RegisterTarget.
PreRegisterHookEnd ==
    /\ ~exited
    /\ taskpc = "prehook_run"
    /\ \E r \in {"ok", "fail", "timeout"} \cup
                (IF cancelled THEN {"canceled"} ELSE {}) :
        hookEnd' = [hookEnd EXCEPT !["PreRegister"] = r]
    /\ taskpc' = "reg_call"
    /\ UNCHANGED <<app, cfgVars, mainpc, sigVars, cancelled, retries, regResp,
                   deregResp, exitVars, backVars, calls, cntVars,
                   hookRuns, outcome, logs>>

\* behaviour-changing variant: the request goes out whatever the context
SendsRequestAlways(ctxDone) == TRUE

\* RegisterTargetsWithContext(ctx, ...): the SDK's HTTP round trip does not
\* send a request whose context is already done; it returns the
\* cancellation error
SendsRequest(ctxDone) == ~ctxDone

\* registerRetrier.RunCtx calls work(ctx) without looking at ctx;
\* RegistratorService.RegisterTarget calls RegisterTargetsWithContext
\* (aws.String never yields nil, so the nil check of TargetGroupArn passes)
RegisterCall ==
    /\ ~exited
    /\ taskpc = "reg_call"
    /\ calls' = [calls EXCEPT !["register"] = @ + 1]
    /\ callArgs' = callArgs \cup {TargetInput("register", app)}
    /\ IF SendsRequest(cancelled)
       THEN /\ regInFlight' = TRUE
            /\ regSends' = regSends + 1
            /\ regResp' = "none"
       ELSE /\ regResp' = "canceled"
            /\ UNCHANGED <<regInFlight, regSends>>
    /\ taskpc' = "reg_wait"
    /\ UNCHANGED <<app, cfgVars, mainpc, sigVars, cancelled, retries, deregResp,
                   exitVars, member, deregInFlight, rejected, healthWaits,
                   healthEnd, deregRuns, regSlept, hookVars, outcome, logs>>

\* behaviour-changing variant: a post-register command is run when the
\* command line asked for one and registration succeeded
RunsPostRegisterHookOnSuccess(err) == flagErr /\ err = "nil"

\* RegisterTarget after registerRetrier.RunCtx returned: it logs a non-nil
\* error and returns; no command is executed there, whatever the result
RunsPostRegisterHook(err) == FALSE

\* behaviour-changing variant: the final error of the run ends the process,
\* as the final error of discovery does
RegisterAfterWorkFatal(err) ==
    IF RetryDecision(err, retries["register"]) = "sleep"
    THEN /\ taskpc' = "sleep"
         /\ UNCHANGED <<outcome, logs, exitVars, hookVars>>
    ELSE /\ outcome' = [outcome EXCEPT !["register"] = err]
         /\ logs' = IF err # "nil" THEN logs \cup {"register"} ELSE logs
         /\ taskpc' = "ended"
         /\ UNCHANGED hookVars
         /\ IF err # "nil" THEN Exit(1, "register") ELSE UNCHANGED exitVars

\* Retrier.RunCtx in the registration goroutine after work returned err:
\* return err to RegisterTarget (which logs a non-nil err and returns, the
\* process goes on), or go to the backoff sleep
RegisterAfterWork(err) ==
    IF RetryDecision(err, retries["register"]) = "sleep"
    THEN /\ taskpc' = "sleep"
         /\ UNCHANGED <<outcome, logs, exitVars, hookVars>>
    ELSE /\ outcome' = [outcome EXCEPT !["register"] = err]
         /\ logs' = IF err # "nil" THEN logs \cup {"register"} ELSE logs
         /\ taskpc' = "ended"
         /\ hookRuns' = IF RunsPostRegisterHook(err)
                        THEN [hookRuns EXCEPT !["PostRegister"] = @ + 1]
                        ELSE hookRuns
         /\ UNCHANGED <<exitVars, hookEnd>>

\* behaviour-changing variant: the flag WaitInService is not looked at
WaitsInServiceAlways(err, a) == err = "nil"

\* RegistratorService.RegisterTarget after RegisterTargetsWithContext
\* returned err: a non-nil err is returned at once; else the health-wait is
\* made when aws.BoolValue(t.WaitUntilInService) holds
WaitsInService(err, a) == err = "nil" /\ a.WaitInService

\* behaviour-changing variant: the call does not watch the context and
\* returns only with the backend's answer
RegisterReturnIgnoringCancel ==
    /\ ~exited
    /\ taskpc = "reg_wait"
    /\ \E err \in ({regResp} \ {"none"}) :
        IF WaitsInService(err, app)
        THEN /\ healthWaits' = healthWaits + 1
             /\ callArgs' = callArgs \cup {TargetInput("health", app)}
             /\ taskpc' = "health"
             /\ UNCHANGED <<outcome, logs, exitVars, hookVars>>
        ELSE /\ RegisterAfterWork(err)
             /\ UNCHANGED <<healthWaits, callArgs>>
    /\ regResp' = "none"
    /\ UNCHANGED <<app, cfgVars, mainpc, sigVars, cancelled, retries, deregResp,
                   backVars, calls, regSends, healthEnd, deregRuns, regSlept>>

\* RegisterTargetsWithContext returns: with the backend's answer, or with
\* the cancellation error once regCancelCtx is done (the request may still be
\* in the network).  On success the health-wait starts when WaitInService is
\* set, else the work function returns nil.
RegisterReturn ==
    /\ ~exited
    /\ taskpc = "reg_wait"
    /\ \E err \in ({regResp} \ {"none"}) \cup
                  (IF cancelled THEN {"canceled"} ELSE {}) :
        IF WaitsInService(err, app)
        THEN /\ healthWaits' = healthWaits + 1
             /\ callArgs' = callArgs \cup {TargetInput("health", app)}
             /\ taskpc' = "health"
             /\ UNCHANGED <<outcome, logs, exitVars, hookVars>>
        ELSE /\ RegisterAfterWork(err)
             /\ UNCHANGED <<healthWaits, callArgs>>
    /\ regResp' = "none"
    /\ UNCHANGED <<app, cfgVars, mainpc, sigVars, cancelled, retries, deregResp,
                   backVars, calls, regSends, healthEnd, deregRuns, regSlept>>

\* WaitUntilTargetInServiceWithContext returns: in service, a backend error,
\* the deadline of WaitUntilInServiceTimeout, or the cancellation of
\* regCancelCtx (a cancelled context no longer reports its deadline)
WaitUntilTargetInService ==
    /\ ~exited
    /\ taskpc = "health"
    /\ \E err \in {"nil", "err"} \cup
                  (IF cancelled THEN {"canceled"} ELSE {"timeout"}) :
        /\ healthEnd' = err
        /\ rejected' = (rejected \/ err \in {"err", "timeout"})
        /\ RegisterAfterWork(err)
    /\ UNCHANGED <<app, cfgVars, mainpc, sigVars, cancelled, retries, regResp,
                   deregResp, member, regInFlight, deregInFlight, calls,
                   regSends, healthWaits, deregRuns, callArgs, regSlept>>

\* behaviour-changing variant: after a failed health-wait only the
\* health-wait is repeated
RegisterSleepTimerRewaiting ==
    /\ ~exited
    /\ taskpc = "sleep"
    /\ retries' = [retries EXCEPT !["register"] = @ + 1]
    /\ regSlept' = regSlept + backoff[retries["register"] + 1]
    /\ IF healthEnd \in {"err", "timeout"}
       THEN /\ taskpc' = "health"
            /\ healthWaits' = healthWaits + 1
       ELSE /\ taskpc' = "reg_call"
            /\ UNCHANGED healthWaits
    /\ UNCHANGED <<app, cfgVars, mainpc, sigVars, cancelled, regResp, deregResp,
                   exitVars, backVars, calls, regSends, healthEnd, deregRuns,
                   callArgs, hookVars, outcome, logs>>

\* Retrier.sleep in the registration goroutine, `case <-t`: the backoff
\* timer has fired; Go's select may take this case also when ctx.Done() is
\* ready as well
RegisterSleepTimer ==
    /\ ~exited
    /\ taskpc = "sleep"
    /\ regSlept' = regSlept + backoff[retries["register"] + 1]
    /\ retries' = [retries EXCEPT !["register"] = @ + 1]
    /\ taskpc' = "reg_call"
    /\ UNCHANGED <<app, cfgVars, mainpc, sigVars, cancelled, regResp, deregResp,
                   exitVars, backVars, calls, regSends, healthWaits, healthEnd,
                   deregRuns, callArgs, hookVars, outcome, logs>>

\* behaviour-changing variant: RegisterTarget does not log the cancellation
RegisterSleepCancelQuiet ==
    /\ ~exited
    /\ taskpc = "sleep"
    /\ cancelled
    /\ outcome' = [outcome EXCEPT !["register"] = "canceled"]
    /\ taskpc' = "ended"
    /\ UNCHANGED <<app, cfgVars, mainpc, sigVars, cancelled, retries, regResp,
                   deregResp, exitVars, backVars, calls, cntVars,
                   hookVars, logs>>

\* Retrier.sleep in the registration goroutine, `case <-ctx.Done()`: RunCtx
\* returns ctx.Err(), which RegisterTarget logs
RegisterSleepCancel ==
    /\ ~exited
    /\ taskpc = "sleep"
    /\ cancelled
    /\ outcome' = [outcome EXCEPT !["register"] = "canceled"]
    /\ logs' = logs \cup {"register"}
    /\ taskpc' = "ended"
    /\ UNCHANGED <<app, cfgVars, mainpc, sigVars, cancelled, retries, regResp,
                   deregResp, exitVars, backVars, calls, cntVars,
                   hookVars>>

\* ------------------------------------------------------------------------
\* signals.SetupSignalHandler
\* ------------------------------------------------------------------------

\* the operating system delivers SIGINT or SIGTERM to the process
Signal ==
    /\ ~exited
    /\ sigsSent < MaxSignals
    /\ sigsSent' = sigsSent + 1
    /\ sigBuf' = sigBuf + 1
    /\ regAtSignal' = IF sigsSent = 0 THEN outcome["register"] = "nil"
                      ELSE regAtSignal
    /\ UNCHANGED <<app, cfgVars, mainpc, taskpc, hpc, done, doneCloses,
                   cancelled, retries, regResp, deregResp, exitVars, backVars,
                   calls, cntVars, hookVars, outcome, logs>>

\* behaviour-changing variant: a signal read while main is not yet waiting
\* is dropped
HandlerFirstDroppingEarly ==
    /\ ~exited
    /\ hpc = "first"
    /\ sigBuf > 0
    /\ sigBuf' = sigBuf - 1
    /\ IF mainpc = "blocked"
       THEN /\ done' = TRUE
            /\ doneCloses' = doneCloses + 1
            /\ hpc' = "second"
       ELSE UNCHANGED <<done, doneCloses, hpc>>
    /\ UNCHANGED <<app, cfgVars, mainpc, taskpc, sigsSent, regAtSignal,
                   cancelled, retries, regResp, deregResp, exitVars, backVars,
                   calls, cntVars, hookVars, outcome, logs>>

\* handler goroutine: first `<-c`, then close(stop)
HandlerFirst ==
    /\ ~exited
    /\ hpc = "first"
    /\ sigBuf > 0
    /\ sigBuf' = sigBuf - 1
    /\ done' = TRUE
    /\ doneCloses' = doneCloses + 1
    /\ hpc' = "second"
    /\ UNCHANGED <<app, cfgVars, mainpc, taskpc, sigsSent, regAtSignal,
                   cancelled, retries, regResp, deregResp, exitVars, backVars,
                   calls, cntVars, hookVars, outcome, logs>>

\* behaviour-changing variant: the handler treats every signal as the
\* first one
HandlerSecondClosingAgain ==
    /\ ~exited
    /\ hpc = "second"
    /\ sigBuf > 0
    /\ sigBuf' = sigBuf - 1
    /\ doneCloses' = doneCloses + 1
    /\ UNCHANGED <<app, cfgVars, mainpc, taskpc, hpc, sigsSent, done,
                   regAtSignal, cancelled, retries, regResp,
                   deregResp, exitVars, backVars, calls, cntVars, hookVars,
                   outcome, logs>>

\* handler goroutine: second `<-c`, then os.Exit(1)
HandlerSecond ==
    /\ ~exited
    /\ hpc = "second"
    /\ sigBuf > 0
    /\ sigBuf' = sigBuf - 1
    /\ Exit(1, "signal")
    /\ UNCHANGED <<app, cfgVars, mainpc, taskpc, hpc, sigsSent, done, doneCloses,
                   regAtSignal, cancelled, retries, regResp, deregResp, backVars, calls,
                   cntVars, hookVars, outcome, logs>>

\* ------------------------------------------------------------------------
\* ELBv2 backend
\* ------------------------------------------------------------------------

\* the backend handles the register request that is in the network: it
\* applies it or fails it; the answer reaches the caller if it still waits
BackendRegister ==
    /\ regInFlight
    /\ regInFlight' = FALSE
    /\ \E apply \in BOOLEAN :
        /\ member' = (member \/ apply)
        /\ rejected' = (rejected \/ ~apply)
        /\ regResp' = IF ~exited /\ taskpc = "reg_wait" /\ regResp = "none"
                      THEN (IF apply THEN "nil" ELSE "err")
                      ELSE regResp
    /\ UNCHANGED <<app, cfgVars, mainpc, taskpc, sigVars, cancelled, retries,
                   deregResp, exitVars, deregInFlight, calls, cntVars, hookVars, outcome, logs>>

\* behaviour-changing variant: the request is lost and never answered
BackendDeregisterSilent ==
    /\ deregInFlight
    /\ deregInFlight' = FALSE
    /\ UNCHANGED <<app, cfgVars, mainpc, taskpc, sigVars, cancelled, retries,
                   regResp, deregResp, exitVars, member, regInFlight, rejected,
                   calls, cntVars, hookVars, outcome, logs>>

\* the backend handles the deregister request that is in the network
BackendDeregister ==
    /\ deregInFlight
    /\ deregInFlight' = FALSE
    /\ \E apply \in BOOLEAN :
        /\ member' = (member /\ ~apply)
        /\ rejected' = (rejected \/ ~apply)
        /\ deregResp' = IF ~exited /\ mainpc = "dereg_wait" /\ deregResp = "none"
                        THEN (IF apply THEN "nil" ELSE "err")
                        ELSE deregResp
    /\ UNCHANGED <<app, cfgVars, mainpc, taskpc, sigVars, cancelled, retries,
                   regResp, exitVars, regInFlight, calls, cntVars,
                   hookVars, outcome, logs>>

\* ------------------------------------------------------------------------
Next ==
    \/ SetupELBService
    \/ SessionSleep
    \/ DiscoverTargetGroupArn
    \/ DiscoverSleep
    \/ GoRegisterTarget
    \/ AwaitDone
    \/ RegCancelFunc
    \/ DeregisterTarget
    \/ DeregisterCall
    \/ DeregisterReturn
    \/ DeregisterSleep
    \/ PostDeregisterHook
    \/ PostDeregisterHookEnd
    \/ PreRegisterHook
    \/ PreRegisterHookEnd
    \/ RegisterCall
    \/ RegisterReturn
    \/ WaitUntilTargetInService
    \/ RegisterSleepTimer
    \/ RegisterSleepCancel
    \/ Signal
    \/ HandlerFirst
    \/ HandlerSecond
    \/ BackendRegister
    \/ BackendDeregister

Spec == Init /\ [][Next]_vars

TypeOK ==
    /\ mainpc \in {"session", "session_sleep", "discover", "discover_sleep",
                   "spawn", "blocked", "cancel", "dereg_start", "dereg",
                   "dereg_wait",
                   "dereg_sleep", "posthook", "posthook_run", "returned"}
    /\ taskpc \in {"none", "start", "prehook_run", "reg_call", "reg_wait",
                   "health", "sleep", "ended"}
    /\ hpc \in {"first", "second"}
    /\ sigBuf \in 0..MaxSignals
    /\ regResp \in {"none", "nil", "err", "canceled"}
    /\ deregResp \in {"none", "nil", "err"}
    /\ \A s \in Sites : retries[s] \in 0..Len(backoff)

\* ------------------------------------------------------------------------
\* Derived notions
\* ------------------------------------------------------------------------

\* executions of the wrapped operation one retrier run can make
MaxAttempts == Len(backoff) + 1

\* discovery returned a handle and main went on
DiscoveryPassed == app.TargetGroupArn # ""

\* main has not got beyond discovery
BeforeRegistration ==
    mainpc \in {"session", "session_sleep", "discover", "discover_sleep"}

\* main is inside the retrier run of DeregisterTarget
InDeregistration == mainpc \in {"dereg", "dereg_wait", "dereg_sleep"}

\* main has left the retrier run of DeregisterTarget
AfterDeregistration == mainpc \in {"posthook", "posthook_run", "returned"}

\* the retrier run of the registration goroutine ended with an error other
\* than the cancellation
RegistrationFailed == outcome["register"] \in {"err", "timeout"}

\* ------------------------------------------------------------------------
\* C1  Detach on shutdown: once the deregister operation has returned
\* success, the endpoint is not a member of the target group (no register
\* request takes effect after the successful deregister), in particular when
\* the process has exited.
\* ------------------------------------------------------------------------
DetachOnShutdown ==
    (outcome["deregister"] = "nil") => ~member

\* ------------------------------------------------------------------------
\* C2  Register and deregister never run concurrently: once the first
\* deregister call has started, no register call of the registration
\* goroutine is executing and no register request is in the network.
\* ------------------------------------------------------------------------
RegisterDeregisterExclusive ==
    (calls["deregister"] > 0) =>
        /\ ~regInFlight
        /\ (~exited => taskpc # "reg_wait")

\* ------------------------------------------------------------------------
\* C3 (as claimed)  Every episode that passed discovery and received a
\* shutdown signal has started the deregistration sequence exactly once by
\* the time the process has exited.
\* ------------------------------------------------------------------------
DeregistrationExactlyOnce ==
    (exited /\ DiscoveryPassed /\ sigsSent > 0) => deregRuns = 1

\* C3 (amended)  The deregistration sequence is started at most once; it has
\* been started exactly once whenever main has got beyond the cancellation,
\* and in every episode that ends by main returning.  The only episodes that
\* passed discovery and end without it are those the signal handler ends
\* with os.Exit(1) on a second signal.  This holds whatever the registration
\* goroutine has done.
DeregistrationOnceUnlessForcedExit ==
    /\ deregRuns <= 1
    /\ (InDeregistration \/ AfterDeregistration) => deregRuns = 1
    /\ (exited /\ exitCause = "return") => (deregRuns = 1 /\ calls["deregister"] >= 1)
    /\ (exited /\ DiscoveryPassed /\ deregRuns = 0) =>
            (exitCause = "signal" /\ exitCode = 1 /\ sigsSent >= 2)

\* witness: main returned after one deregistration although the registration
\* run had ended by cancellation
DeregistrationOnceWitness ==
    /\ exited /\ exitCause = "return" /\ deregRuns = 1
    /\ outcome["register"] = "canceled"

\* ------------------------------------------------------------------------
\* C4  Nothing of the shutdown path happens before a termination signal was
\* handled: no cancellation of regCancelCtx, no invocation of
\* DeregisterTarget, no deregister call and no post-deregister hook, however
\* far the registration goroutine has got and whatever its outcome.
\* ------------------------------------------------------------------------
BlocksUntilSignal ==
    (cancelled \/ deregRuns > 0 \/ calls["deregister"] > 0
        \/ hookRuns["PostDeregister"] > 0 \/ mainpc = "returned")
    => (done /\ sigsSent >= 1)

\* witness: the registration run had failed long before; the shutdown path
\* ran after the signal
BlocksUntilSignalWitness ==
    /\ RegistrationFailed
    /\ done /\ cancelled /\ calls["deregister"] > 0
    /\ hookRuns["PostDeregister"] > 0

\* ------------------------------------------------------------------------
\* C5 (as claimed)  Once deregistration has started it runs until the
\* deregister operation succeeded or the retry budget is exhausted: the
\* process never ends before that point.
\* ------------------------------------------------------------------------
DeregistrationRunsToCompletion ==
    (exited /\ deregRuns > 0) =>
        \/ outcome["deregister"] = "nil"
        \/ (outcome["deregister"] = "err" /\ calls["deregister"] = MaxAttempts)

\* C5 (amended)  The cancellation of the registration scope never ends the
\* deregistration run: main leaves it only with success or with the error of
\* the last attempt of the budget.  A second termination signal does end it:
\* the signal handler exits the process with status 1 at once.
DeregistrationEndsOnlyBySuccessExhaustionOrSecondSignal ==
    /\ AfterDeregistration =>
        \/ outcome["deregister"] = "nil"
        \/ (outcome["deregister"] = "err" /\ calls["deregister"] = MaxAttempts)
    /\ (exited /\ deregRuns > 0 /\ outcome["deregister"] = "none") =>
            (exitCause = "signal" /\ exitCode = 1 /\ sigsSent >= 2)

\* witness: a second signal ended the process in the middle of the run
DeregistrationCutShortWitness ==
    /\ exited /\ exitCause = "signal"
    /\ mainpc = "dereg_sleep" /\ calls["deregister"] = 2 /\ cancelled

\* ------------------------------------------------------------------------
\* C6 (as claimed)  Once regCancelCtx is cancelled, the registration
\* goroutine starts no register call.
\* ------------------------------------------------------------------------
NoRegisterCallAfterCancel ==
    [][cancelled => calls'["register"] = calls["register"]]_vars

\* C6 (amended)  Once regCancelCtx is cancelled, no register request is sent
\* to the backend; a register call started afterwards carries the cancelled
\* context and returns the cancellation error without a request.
NoRegisterRequestAfterCancel ==
    [][cancelled =>
        /\ regSends' = regSends
        /\ (regInFlight' => regInFlight)
        /\ (calls'["register"] # calls["register"] => regResp' = "canceled")]_vars

\* witness: the scope was cancelled before the first attempt; the attempt
\* was still made and no request left the process
NoRegisterRequestAfterCancelWitness ==
    /\ cancelled /\ calls["register"] = 1 /\ regSends = 0
    /\ taskpc = "reg_wait" /\ regResp = "canceled" /\ ~member

\* ------------------------------------------------------------------------
\* C8  Discovery is fatal on failure: with zero or several matching groups
\* main never gets beyond discovery; when the discovery run returns an error
\* the process has exited with status 1; and as long as main has not got
\* beyond discovery no hook, no register call and no deregister call has run.
\* ------------------------------------------------------------------------
DiscoveryFatal ==
    /\ (Len(targetGroups) # 1) => (BeforeRegistration /\ ~DiscoveryPassed)
    /\ (outcome["discover"] \notin {"none", "nil"}) =>
            (exited /\ exitCode = 1 /\ exitCause = "discover" /\ BeforeRegistration)
    /\ BeforeRegistration =>
            /\ taskpc = "none"
            /\ calls["register"] = 0 /\ regSends = 0 /\ ~regInFlight
            /\ calls["deregister"] = 0 /\ deregRuns = 0 /\ ~deregInFlight
            /\ hookRuns["PreRegister"] = 0 /\ hookRuns["PostDeregister"] = 0
            /\ ~member

\* witness: two groups carry the name and the process has exited with 1
DiscoveryFatalWitness ==
    /\ Len(targetGroups) = 2
    /\ exited /\ exitCode = 1 /\ exitCause = "discover"
    /\ calls["discover"] = MaxAttempts

\* ------------------------------------------------------------------------
\* C9 (as claimed)  In each retry-wrapped call site the wrapped operation is
\* executed at most 3 times.
\* ------------------------------------------------------------------------
AtMostThreeExecutions ==
    \A s \in Counted : calls[s] <= 3

\* C9 (amended)  In each retry-wrapped call site the wrapped operation is
\* executed at most 4 times (one attempt and the 3 retries of the backoff
\* list), and after the failure of the 4th attempt the run returns that
\* error without a further sleep or attempt.
AtMostFourExecutions ==
    /\ \A s \in Counted : calls[s] <= Retries + 1
    /\ mainpc = "discover_sleep" => calls["discover"] <= Retries
    /\ mainpc = "dereg_sleep" => calls["deregister"] <= Retries
    /\ taskpc = "sleep" => calls["register"] <= Retries
    /\ \A s \in Counted :
        (outcome[s] \notin {"none", "nil", "canceled"}) => calls[s] = Retries + 1

\* witness: the registration run and the deregistration run have both used
\* their whole budget of 4 executions and returned the last error
AtMostFourExecutionsWitness ==
    /\ calls["register"] = 4 /\ calls["deregister"] = 4
    /\ outcome["register"] = "err" /\ outcome["deregister"] = "err"
    /\ retries["register"] = Retries /\ retries["deregister"] = Retries

\* ------------------------------------------------------------------------
\* C10  A registration failure is not fatal: the final error of the
\* registration run is logged; it does not end the process (main stays at
\* `<-done` until a signal was handled); after the signal main runs the
\* deregistration, so that a process that ends by main returning has made a
\* deregister call.  A process that ends otherwise after a registration
\* failure was ended by the signal handler on a second signal.
\* ------------------------------------------------------------------------
RegistrationFailureNotFatal ==
    RegistrationFailed =>
        /\ "register" \in logs
        /\ ~done => (~exited /\ mainpc = "blocked")
        /\ exited => exitCause \in {"return", "signal"}
        /\ (exited /\ exitCause = "return") =>
                (deregRuns = 1 /\ calls["deregister"] >= 1)
        /\ (exited /\ exitCause = "signal") => sigsSent >= 2

\* witness: the health-wait timed out in all attempts, and the process ended
\* by main returning after a deregister call
RegistrationFailureNotFatalWitness ==
    /\ outcome["register"] = "timeout" /\ calls["register"] = MaxAttempts
    /\ exited /\ exitCause = "return" /\ exitCode = 0
    /\ outcome["deregister"] = "nil"

\* ------------------------------------------------------------------------
\* C7 (as claimed)  Once the shutdown signal was handled while a register
\* call, a backoff delay or the health-wait of the registration goroutine is
\* in progress, the goroutine starts no further register attempt.
\* ------------------------------------------------------------------------
NoAttemptAfterSignal ==
    [][(done /\ taskpc \in {"reg_wait", "sleep", "health"})
        => taskpc' # "reg_call"]_vars

\* C7 (amended)  Once regCancelCtx is cancelled (which main does after the
\* signal, not at its arrival), the registration goroutine sends no further
\* register request (an attempt begun afterwards returns the cancellation
\* error at once), a health-wait no longer ends by its timeout, and the
\* goroutine terminates unless the process exits first.
UnwindsAfterCancel ==
    /\ [][cancelled =>
            /\ regSends' = regSends
            /\ (healthEnd' # healthEnd => healthEnd' # "timeout")
            /\ (taskpc = "ended" => taskpc' = "ended")]_vars
    /\ (cancelled ~> (taskpc = "ended" \/ exited))

\* witness: the scope was cancelled during the health-wait, the wait ended
\* by the cancellation and the goroutine has returned
UnwindsAfterCancelWitness ==
    /\ cancelled /\ taskpc = "ended" /\ ~exited
    /\ healthEnd = "canceled" /\ outcome["register"] = "canceled"
    /\ calls["register"] = 1

\* ------------------------------------------------------------------------
\* C11  With a post-deregister command configured, the hook runs exactly
\* once in every episode that reaches deregistration, only after the
\* deregister retry run has completed, after a success as after a failure;
\* with an empty command it never runs.
\* ------------------------------------------------------------------------
PostDeregisterHookExactlyOnce ==
    /\ hookRuns["PostDeregister"] <= 1
    /\ (hookRuns["PostDeregister"] > 0 =>
            /\ outcome["deregister"] # "none"
            /\ AfterDeregistration)
    /\ (app.PostDeregisterCommand = "" => hookRuns["PostDeregister"] = 0)
    /\ (exited /\ deregRuns > 0 /\ app.PostDeregisterCommand # "" =>
            hookRuns["PostDeregister"] = 1)

\* C11 (amended)  The hook runs at most once, only after the deregister
\* retry run has completed, and never with an empty command; it has run
\* exactly once, after a success as after a failure of deregistration, when
\* main returns.  An episode that reached deregistration and is ended by the
\* os.Exit(1) of the second signal can end without the hook.
PostDeregisterHookOnceUnlessForcedExit ==
    /\ hookRuns["PostDeregister"] <= 1
    /\ (hookRuns["PostDeregister"] > 0 =>
            /\ outcome["deregister"] # "none"
            /\ AfterDeregistration)
    /\ (app.PostDeregisterCommand = "" => hookRuns["PostDeregister"] = 0)
    /\ (exited /\ exitCause = "return" /\ app.PostDeregisterCommand # "" =>
            /\ deregRuns = 1
            /\ outcome["deregister"] \in {"nil", "err"}
            /\ hookRuns["PostDeregister"] = 1)
    /\ (exited /\ deregRuns > 0 /\ hookRuns["PostDeregister"] = 0
            /\ app.PostDeregisterCommand # "" => exitCause = "signal")

\* witness: deregistration failed after all its attempts, the hook ran once
\* and main returned
PostDeregisterHookOnceWitness ==
    /\ exited /\ exitCause = "return"
    /\ outcome["deregister"] = "err" /\ calls["deregister"] = MaxAttempts
    /\ hookRuns["PostDeregister"] = 1 /\ hookEnd["PostDeregister"] = "ok"

\* ------------------------------------------------------------------------
\* C12  Shutdown ordering: the shutdown event is delivered at most once (the
\* handler closes `done` once, main receives from it once); main receives
\* it strictly before it cancels regCancelCtx, and cancels strictly before
\* the first deregister call.
\* ------------------------------------------------------------------------
ShutdownOrdering ==
    /\ [](doneCloses <= 1)
    /\ [](cancelled => done /\ doneCloses = 1)
    /\ [](deregRuns > 0 \/ calls["deregister"] > 0 => cancelled)
    /\ [][(mainpc # "cancel" /\ mainpc' = "cancel") =>
            (mainpc = "blocked" /\ done /\ ~cancelled)]_vars
    /\ [][(mainpc # "blocked" /\ mainpc' = "blocked") =>
            (mainpc = "spawn" /\ ~cancelled)]_vars
    /\ [][(~cancelled /\ cancelled') =>
            (mainpc = "cancel" /\ done /\ deregRuns' = 0
             /\ calls'["deregister"] = 0)]_vars
    /\ [][(calls["deregister"] = 0 /\ calls'["deregister"] > 0) =>
            (cancelled /\ done)]_vars

\* witness: two signals were sent, the first closed `done`, main received
\* it, cancelled and has made a deregister call
ShutdownOrderingWitness ==
    /\ sigsSent = 2 /\ doneCloses = 1 /\ done /\ cancelled
    /\ calls["deregister"] > 0 /\ ~exited

\* ------------------------------------------------------------------------
\* C13  The handle app.TargetGroupArn is resolved once, before the
\* registration goroutine is started and before deregistration, and never
\* changes afterwards; every register, health-wait and deregister call
\* carries the ARN of the single group discovery matched and the same
\* target id.
\* ------------------------------------------------------------------------
HandleResolvedOnce ==
    /\ [](taskpc # "none" \/ deregRuns > 0 \/ callArgs # {} => DiscoveryPassed)
    /\ [](DiscoveryPassed =>
            /\ targetGroups = <<app.TargetGroupArn>>
            /\ outcome["discover"] = "nil")
    /\ [](\A c \in callArgs :
            /\ c.TargetGroupArn = app.TargetGroupArn
            /\ c.TargetGroupArn = targetGroups[1]
            /\ c.ID = TargetIP)
    /\ [][DiscoveryPassed => app' = app]_vars
    /\ [][app' # app => (mainpc = "discover" /\ taskpc = "none"
                          /\ deregRuns = 0 /\ app'.TargetID = app.TargetID)]_vars

\* witness: register, health-wait and deregister calls have all been made
\* with the discovered handle
HandleResolvedOnceWitness ==
    /\ DiscoveryPassed
    /\ {c.op : c \in callArgs} = {"register", "health", "deregister"}
    /\ calls["register"] > 1 /\ calls["deregister"] > 1

\* ------------------------------------------------------------------------
\* C14  Failure-free episode: one matching group, WaitInService set, no
\* register, health-wait or deregister call answered with an error, and a
\* single termination signal that arrives when the registration run has
\* returned nil: the backend sees exactly one register call, then one
\* health-wait, then exactly one deregister call, and the process exits with
\* status 0.  (Failed attempts of discovery before the one that matched
\* are allowed.)
\* ------------------------------------------------------------------------
FailureFree ==
    /\ Len(targetGroups) = 1
    /\ app.WaitInService
    /\ ~rejected
    /\ sigsSent = 1
    /\ regAtSignal

FailureFreeEpisode ==
    /\ [](FailureFree =>
            /\ calls["register"] = 1 /\ regSends = 1
            /\ healthWaits = 1 /\ healthEnd = "nil"
            /\ calls["deregister"] <= 1 /\ deregRuns <= 1)
    /\ [](FailureFree /\ exited =>
            /\ calls["deregister"] = 1 /\ outcome["deregister"] = "nil"
            /\ exitCause = "return" /\ exitCode = 0
            /\ ~member)
    /\ [][(FailureFree /\ calls["deregister"] = 0
            /\ calls'["deregister"] > 0) =>
            (taskpc = "ended" /\ healthEnd = "nil"
             /\ outcome["register"] = "nil")]_vars

\* witness: such an episode has ended
FailureFreeEpisodeWitness ==
    /\ FailureFree /\ exited
    /\ calls["register"] = 1 /\ healthWaits = 1 /\ calls["deregister"] = 1
    /\ exitCode = 0

\* ------------------------------------------------------------------------
\* C15  Termination after shutdown: when every backend call returns and
\* every hook ends, then once a signal has been received the process
\* eventually exits, and it does so after deregistration and the optional
\* post-deregister hook (unless discovery failed), whatever the state of the
\* registration goroutine.
\* ------------------------------------------------------------------------
TerminatesAfterDeregistration ==
    (sigsSent > 0) ~>
        (exited /\ (DiscoveryPassed =>
                        /\ exitCause = "return"
                        /\ outcome["deregister"] # "none"))

\* C15 (amended)  Once a signal has been received the process eventually
\* exits.  When it exits by the return of main, the deregister run has
\* completed and the post-deregister hook, if configured, has run and ended,
\* whatever the state of the registration goroutine; the only other exit
\* after discovery is the os.Exit(1) of a second signal, which does not wait
\* for deregistration.
TerminatesAfterShutdown ==
    /\ ((sigsSent > 0) ~> exited)
    /\ [](exited /\ exitCause = "return" =>
            /\ deregRuns = 1
            /\ outcome["deregister"] # "none"
            /\ (app.PostDeregisterCommand # "" =>
                    /\ hookRuns["PostDeregister"] = 1
                    /\ hookEnd["PostDeregister"] # "none"))
    /\ [](exited /\ DiscoveryPassed => exitCause \in {"return", "signal"})
    /\ [](exited /\ exitCause = "signal" => sigsSent >= 2)

\* witness: main has returned after deregistration and the hook while the
\* registration goroutine is still inside its health-wait
TerminatesAfterShutdownWitness ==
    /\ exited /\ exitCause = "return" /\ taskpc = "health"
    /\ outcome["deregister"] = "nil" /\ hookRuns["PostDeregister"] = 1

OnlyDiscoveryFailureFatal ==
    /\ (exited /\ exitCause \notin {"return", "signal"} =>
            exitCause = "discover")
    /\ (outcome["session"] = "err" => "session" \in logs)
    /\ (outcome["register"] \in {"err", "timeout"} => "register" \in logs)
    /\ (outcome["deregister"] = "err" => "deregister" \in logs)

\* C17 (amended)  Two failures end the process with status 1 before any
\* registration: a failed session setup (SetupELBService) and a failed
\* discovery, each after its retries.  A failure of register, health-wait
\* or deregister is logged and a failure or timeout of a hook is dropped;
\* none of them ends the process: it ends only by the return of main after
\* the deregister run and the post-deregister hook, or by the os.Exit(1) of
\* a second signal.
SessionAndDiscoveryFailureFatal ==
    /\ (exited => exitCause \in {"session", "discover", "return", "signal"})
    /\ (outcome["session"] = "err" =>
            /\ exited /\ exitCause = "session" /\ exitCode = 1
            /\ "session" \in logs
            /\ mainpc = "session" /\ taskpc = "none")
    /\ (outcome["discover"] \notin {"none", "nil"} =>
            /\ exited /\ exitCause = "discover" /\ exitCode = 1
            /\ "discover" \in logs
            /\ mainpc = "discover" /\ taskpc = "none")
    /\ (exited /\ exitCause \in {"session", "discover"} =>
            /\ outcome[exitCause] \notin {"none", "nil"}
            /\ callArgs = {})
    /\ (outcome["register"] \in {"err", "timeout"} => "register" \in logs)
    /\ (outcome["deregister"] = "err" => "deregister" \in logs)
    /\ (exited /\ exitCause = "return" =>
            /\ exitCode = 0 /\ done /\ deregRuns = 1
            /\ outcome["deregister"] # "none"
            /\ (app.PostDeregisterCommand # "" =>
                    hookEnd["PostDeregister"] # "none"))

\* witness: the session setup failed after its retries and the process
\* exited with status 1 before discovery
SessionFailureFatalWitness ==
    /\ exited /\ exitCause = "session" /\ exitCode = 1
    /\ outcome["session"] = "err" /\ outcome["discover"] = "none"

\* ------------------------------------------------------------------------
\* C18  With a pre-register command configured, the first register call is
\* made only after the pre-register hook has finished, and it is made
\* whatever the hook's outcome (success, non-zero exit, timeout): the
\* outcome changes nothing but the log, and registration goes on.
\* ------------------------------------------------------------------------
RegisterFollowsPreRegisterHook ==
    /\ [](hookRuns["PreRegister"] <= 1)
    /\ [](app.PreRegisterCommand # "" /\ calls["register"] > 0 =>
            /\ hookEnd["PreRegister"] # "none"
            /\ taskpc \notin {"start", "prehook_run"})
    /\ [](taskpc \in {"start", "prehook_run"} =>
            calls["register"] = 0 /\ regSends = 0 /\ ~regInFlight)
    /\ [][hookEnd'["PreRegister"] # hookEnd["PreRegister"] =>
            /\ taskpc' = "reg_call"
            /\ exited' = exited /\ outcome' = outcome
            /\ logs' = logs]_vars
    /\ (hookEnd["PreRegister"] # "none" ~> (calls["register"] > 0 \/ exited))

\* witness: the hook exited non-zero, and the register call that followed
\* was sent and succeeded
RegisterFollowsPreRegisterHookWitness ==
    /\ hookRuns["PreRegister"] = 1 /\ hookEnd["PreRegister"] = "fail"
    /\ calls["register"] = 1 /\ regSends = 1
    /\ outcome["register"] = "nil"

\* ------------------------------------------------------------------------
\* C19  The health-wait is invoked if and only if WaitInService is set and
\* the register call of the same attempt returned nil; it is never invoked
\* with WaitInService unset or after a failed register call; an invoked
\* health-wait ends by success, a backend error, its timeout, or the
\* cancellation of regCancelCtx.
\* ------------------------------------------------------------------------
HealthWaitIffEnabledAndRegistered ==
    /\ [](~app.WaitInService =>
            healthWaits = 0 /\ healthEnd = "none" /\ taskpc # "health")
    /\ [](healthWaits <= regSends /\ healthWaits <= calls["register"])
    /\ [][healthWaits' # healthWaits =>
            /\ app.WaitInService
            /\ taskpc = "reg_wait" /\ regResp = "nil"
            /\ healthWaits' = healthWaits + 1
            /\ taskpc' = "health"]_vars
    /\ [][(taskpc = "reg_wait" /\ taskpc' # "reg_wait") =>
            /\ (taskpc' = "health" <=> healthWaits' = healthWaits + 1)
            /\ (app.WaitInService /\ taskpc' # "health" =>
                    outcome'["register"] # "nil")
            /\ (regResp # "nil" => taskpc' # "health")]_vars
    /\ [][healthEnd' # healthEnd =>
            /\ taskpc = "health" /\ taskpc' # "health"
            /\ healthEnd' \in {"nil", "err", "timeout", "canceled"}
            /\ (healthEnd' = "canceled" => cancelled)]_vars
    /\ [][(taskpc = "health" /\ taskpc' # "health") =>
            healthEnd' \in {"nil", "err", "timeout", "canceled"}]_vars

\* witness: the register call failed once without a health-wait, the second
\* attempt registered and its health-wait ended by the cancellation
HealthWaitIffWitness ==
    /\ app.WaitInService /\ calls["register"] = 2 /\ regSends = 2
    /\ healthWaits = 1 /\ healthEnd = "canceled" /\ cancelled

\* ------------------------------------------------------------------------
\* C20  The retried unit of registration is the register call together with
\* the health-wait: a health-wait that ends by its timeout or a backend
\* error is a failed attempt of the retrier run (backoff sleep, or the end of
\* the run after the last attempt), the next attempt makes the register call
\* again before it waits again, so an episode can hold several register
\* calls and several health-waits, each health-wait directly preceded by a
\* register call that returned nil.
\* ------------------------------------------------------------------------
HealthWaitFailureRetriesRegister ==
    /\ [](healthWaits <= regSends /\ regSends <= calls["register"]
          /\ calls["register"] <= MaxAttempts)
    /\ [](taskpc \in {"reg_wait", "health", "sleep"} =>
            calls["register"] = retries["register"] + 1)
    /\ [][(taskpc = "health" /\ healthEnd' \in {"err", "timeout"}
            /\ taskpc' # "health") =>
            IF retries["register"] < Retries
            THEN taskpc' = "sleep" /\ outcome'["register"] = "none"
            ELSE taskpc' = "ended" /\ outcome'["register"] = healthEnd'
                 /\ "register" \in logs']_vars
    /\ [][(taskpc # "health" /\ taskpc' = "health") =>
            /\ taskpc = "reg_wait" /\ regResp = "nil"
            /\ healthWaits' = healthWaits + 1]_vars
    /\ [][(taskpc = "sleep" /\ taskpc' # "sleep") =>
            \/ taskpc' = "reg_call" /\ healthWaits' = healthWaits
            \/ taskpc' = "ended" /\ cancelled]_vars
    /\ [][(taskpc = "reg_call" /\ taskpc' # "reg_call") =>
            /\ taskpc' = "reg_wait"
            /\ calls'["register"] = calls["register"] + 1]_vars

\* witness: the first health-wait timed out, the second attempt registered
\* again and its health-wait succeeded
HealthWaitFailureRetriesRegisterWitness ==
    /\ ~cancelled
    /\ calls["register"] = 2 /\ regSends = 2 /\ healthWaits = 2
    /\ retries["register"] = 1 /\ ~("register" \in logs)
    /\ healthEnd = "nil" /\ outcome["register"] = "nil"

\* ------------------------------------------------------------------------
\* C21  A hook that has started is never cancelled by the shutdown path: it
\* ends only by the command finishing or by its own timeout, also when
\* regCancelCtx is cancelled while the pre-register hook is running.
\* ------------------------------------------------------------------------
HooksNeverCancelled ==
    \A h \in Hooks :
        hookRuns[h] > 0 => hookEnd[h] \in {"none", "ok", "fail", "timeout"}

\* C21 (amended)  The post-deregister hook, whose context is derived from
\* the background context, ends only by the command finishing or by its own
\* timeout.  The context of the pre-register hook is derived from
\* regCancelCtx: a running pre-register hook can also be ended by the
\* cancellation main makes after the signal, and only by it (never before
\* the cancellation); a pre-register hook reached after the cancellation is
\* not started at all.
OnlyPreRegisterHookCancelled ==
    /\ [](hookEnd["PostDeregister"] \in {"none", "ok", "fail", "timeout"})
    /\ [](hookEnd["PreRegister"] \in
            {"none", "ok", "fail", "timeout", "canceled"})
    /\ [](hookEnd["PreRegister"] = "canceled" => cancelled /\ done)
    /\ [][(hookRuns'["PreRegister"] > hookRuns["PreRegister"]) =>
            ~cancelled]_vars
    /\ [][(taskpc = "prehook_run" /\ taskpc' # "prehook_run" /\ ~cancelled) =>
            hookEnd'["PreRegister"] \in {"ok", "fail", "timeout"}]_vars

\* witness: the pre-register hook had started, the scope was cancelled while
\* it ran and the cancellation ended it
PreRegisterHookCancelledWitness ==
    /\ hookRuns["PreRegister"] = 1 /\ hookEnd["PreRegister"] = "canceled"
    /\ cancelled /\ taskpc = "reg_call"

\* ------------------------------------------------------------------------
\* A retrier run taken alone: registerRetrier.RunCtx(ctx, work) of
\* RegisterTarget, with work = RegistratorService.RegisterTarget(ctx, t),
\* for every input t and every sequence of backend answers, under a context
\* that is never done
\* ------------------------------------------------------------------------

\* the variables of the program
progVars == <<app, targetGroups, flagErr, mainpc, taskpc, sigVars, cancelled,
              retries, regResp, deregResp, exitVars, backVars, calls,
              regSends, healthWaits, healthEnd, deregRuns, callArgs, regSlept,
              hookVars, outcome, logs>>

\* RegistratorService.RegisterTarget(ctx, t): the configuration error when
\* t.TargetGroupArn is nil, else what the backend calls return
RegisterOperation(t, answer) ==
    IF t.TargetGroupArnIsNil THEN "unresolved" ELSE answer

RunInit ==
    /\ InitProgram
    /\ runInput \in [TargetGroupArnIsNil : BOOLEAN]
    /\ runAnswers \in [1..MaxAttempts -> {"nil", "err"}]
    /\ runpc = "work"
    /\ runRetries = 0
    /\ runExecs = 0
    /\ runSlept = 0
    /\ runResult = "none"

\* behaviour-changing variant: the configuration error is classified as
\* "Fail" and returned at once
RunDecisionFailingFast(err, r) ==
    IF err = "unresolved" THEN "return" ELSE RetryDecision(err, r)

\* the decision of Retrier.RunCtx after work returned err, with the
\* classifier retrier.New(backoff, nil) was given
RunDecision(err, r) == RetryDecision(err, r)

\* RunCtx: `ret := work(ctx)` and the switch on the class of ret
RunWork ==
    /\ runpc = "work"
    /\ runExecs' = runExecs + 1
    /\ LET err == RegisterOperation(runInput, runAnswers[runExecs + 1]) IN
        IF RunDecision(err, runRetries) = "sleep"
        THEN /\ runpc' = "sleep"
             /\ UNCHANGED runResult
        ELSE /\ runpc' = "returned"
             /\ runResult' = err
    /\ UNCHANGED <<progVars, runInput, runAnswers, runRetries, runSlept>>

\* RunCtx: `r.sleep(ctx, r.backoff[retries])` (the timer fires) and
\* `retries++`
RunSleep ==
    /\ runpc = "sleep"
    /\ runSlept' = runSlept + backoff[runRetries + 1]
    /\ runRetries' = runRetries + 1
    /\ runpc' = "work"
    /\ UNCHANGED <<progVars, runInput, runAnswers, runExecs, runResult>>

RunNext == RunWork \/ RunSleep

RetrierSpec == RunInit /\ [][RunNext]_vars

CancellationNotLogged ==
    /\ (outcome["register"] = "canceled" => cancelled)
    /\ (outcome["register"] = "canceled" => "register" \notin logs)

\* C23 (amended)  When the registration run ends because regCancelCtx was
\* cancelled, it returns the cancellation error and not the error of a
\* failed attempt; RegisterTarget logs it under the key "error" exactly as
\* it logs a failure: every non-nil result of the run is logged.
CancellationLoggedAsError ==
    /\ [](outcome["register"] = "canceled" =>
            cancelled /\ taskpc = "ended" /\ "register" \in logs)
    /\ [](outcome["register"] \notin {"none", "nil"} <=> "register" \in logs)
    /\ [](outcome["register"] \in {"err", "timeout"} => rejected)
    /\ [][(taskpc = "sleep" /\ taskpc' = "ended") =>
            (cancelled /\ outcome'["register"] = "canceled")]_vars

\* witness: the scope was cancelled during the backoff sleep after a failed
\* attempt; the run returned the cancellation, which was logged
CancellationLoggedWitness ==
    /\ outcome["register"] = "canceled" /\ "register" \in logs
    /\ rejected /\ calls["register"] = 1 /\ retries["register"] = 0
    /\ taskpc = "ended" /\ ~exited

\* ------------------------------------------------------------------------
\* C24  Backoff schedule: within the registration run the delay before the
\* next attempt doubles from the 1-second base (1 s before the 2nd attempt,
\* 2 s before the 3rd), so a register call that fails twice and succeeds at
\* the 3rd attempt has waited 1 s + 2 s before the success, after which the
\* health-wait proceeds.
\* ------------------------------------------------------------------------
BackoffDoubles ==
    /\ [](regSlept = BaseDelay * (2 ^ retries["register"] - 1))
    /\ [][retries'["register"] # retries["register"] =>
            /\ retries'["register"] = retries["register"] + 1
            /\ regSlept' - regSlept = backoff[retries'["register"]]]_vars
    /\ [](backoff[1] = 1 /\ \A i \in 1..(Len(backoff) - 1) :
                                backoff[i + 1] = 2 * backoff[i])
    /\ [](taskpc \in {"reg_wait", "health"} =>
            /\ (calls["register"] = 2 => regSlept = 1)
            /\ (calls["register"] = 3 => regSlept = 1 + 2))
    /\ [][(calls["register"] = 3 /\ taskpc = "reg_wait" /\ regResp = "nil"
            /\ app.WaitInService /\ ~cancelled /\ taskpc' # "reg_wait") =>
            (taskpc' = "health" /\ regSlept' = 3)]_vars

\* witness: two register calls failed, the third succeeded after 1 s + 2 s
\* of backoff and the health-wait has started
BackoffDoublesWitness ==
    /\ calls["register"] = 3 /\ regSends = 3 /\ healthWaits = 1
    /\ regSlept = 3 /\ taskpc = "health" /\ ~cancelled

\* ------------------------------------------------------------------------
\* C25  Cancelling regCancelCtx after the registration goroutine has
\* completed successfully changes nothing at the backend: the target stays
\* a member of the group from the successful register call until a
\* deregister request takes effect, and the cancellation itself makes no
\* backend call.
\* ------------------------------------------------------------------------
CancelLeavesRegistration ==
    /\ [][cancelled' # cancelled =>
            /\ cancelled'
            /\ backVars' = backVars /\ calls' = calls
            /\ regSends' = regSends /\ callArgs' = callArgs
            /\ outcome' = outcome /\ taskpc' = taskpc]_vars
    /\ [][(member /\ ~member') => (deregInFlight /\ ~deregInFlight')]_vars
    /\ [](outcome["register"] = "nil" /\ calls["deregister"] = 0 => member)
    /\ [][(outcome["register"] = "nil" /\ taskpc = "ended") =>
            (outcome'["register"] = "nil" /\ taskpc' = "ended"
             /\ regSends' = regSends
             /\ calls'["register"] = calls["register"])]_vars

\* witness: the registration had completed when the signal came; the scope
\* is cancelled, no deregister call has been made and the target is a member
CancelLeavesRegistrationWitness ==
    /\ regAtSignal /\ cancelled /\ outcome["register"] = "nil"
    /\ taskpc = "ended" /\ member /\ calls["deregister"] = 0
    /\ mainpc = "dereg_start"

\* ------------------------------------------------------------------------
\* C26  A termination signal is never lost: the handler is installed before
\* session setup and discovery, a signal that arrives during them is
\* remembered, `<-done` returns when main reaches it, and cancellation and
\* deregistration follow in every episode that passes discovery.
\* ------------------------------------------------------------------------
EarlySignalAlwaysDeregisters ==
    (sigsSent > 0 /\ BeforeRegistration) ~>
        (exited /\ (DiscoveryPassed => cancelled /\ deregRuns = 1))

\* C26 (amended)  A signal that arrives before main waits is remembered
\* (it stays in the handler's channel until the handler closes `done`, and
\* `done` stays closed); when main reaches `<-done` it goes on to the
\* cancellation, and cancellation and deregistration follow in every
\* episode that passes discovery and is not ended by the os.Exit(1) of a
\* second signal.
EarlySignalRemembered ==
    /\ [][done => done']_vars
    /\ [](sigsSent > 0 /\ ~exited => done \/ sigBuf > 0)
    /\ [](hpc = "second" => done)
    /\ ((sigsSent > 0 /\ BeforeRegistration) ~>
            (exited /\ (DiscoveryPassed /\ exitCause # "signal" =>
                            /\ exitCause = "return"
                            /\ cancelled /\ deregRuns = 1
                            /\ outcome["deregister"] # "none")))
    /\ ((mainpc = "blocked" /\ done) ~> (cancelled \/ exited))
    /\ [](exited /\ exitCause = "signal" => sigsSent >= 2 /\ done)

\* witness: the only signal arrived and was handled before discovery had
\* returned; discovery has passed and main is about to start the goroutine
EarlySignalRememberedWitness ==
    /\ mainpc = "spawn" /\ taskpc = "none" /\ DiscoveryPassed
    /\ sigsSent = 1 /\ done /\ ~cancelled /\ ~exited

\* the steps of the registration goroutine
TaskStep ==
    \/ PreRegisterHook
    \/ PreRegisterHookEnd
    \/ RegisterCall
    \/ RegisterReturn
    \/ WaitUntilTargetInService
    \/ RegisterSleepTimer
    \/ RegisterSleepCancel

\* the Go scheduler keeps running a goroutine that can take a step; the
\* timers of the hook, the health-wait and the backoff do fire
LiveSpec == Init /\ [][Next]_vars /\ WF_vars(TaskStep)

\* the steps of the main goroutine
MainStep ==
    \/ SetupELBService
    \/ SessionSleep
    \/ DiscoverTargetGroupArn
    \/ DiscoverSleep
    \/ GoRegisterTarget
    \/ AwaitDone
    \/ RegCancelFunc
    \/ DeregisterTarget
    \/ DeregisterCall
    \/ DeregisterReturn
    \/ DeregisterSleep
    \/ PostDeregisterHook
    \/ PostDeregisterHookEnd

\* the main goroutine and the signal handler keep running, the timers of
\* the backoff and of the hook fire, and the backend answers every
\* deregister request
TermSpec ==
    /\ Init /\ [][Next]_vars
    /\ WF_vars(MainStep)
    /\ WF_vars(HandlerFirst)
    /\ WF_vars(BackendDeregister)

====
